---- MODULE Spec2Model ----
(***************************************************************************)
(* A model of the RISC-V interpreter core of turbo-emulator                *)
(* (src/emulation/src/riscv/interpreter/main.rs): the trap engine          *)
(* (handle_trap, mstatus_fixup), the block cache (build_exec, check_block) *)
(* and the executor (exec_cached_int, exec_block_inner, exec_one_by_one,   *)
(* run).                                                                   *)
(*                                                                         *)
(* 64-bit words whose bits matter (CSRs, trap values, the pc seen by the   *)
(* trap engine) are sets of bit positions, a subset of 0..63: bit i of the *)
(* word is set iff i is in the set.  Addresses used by the executor are    *)
(* small naturals.                                                         *)
(***************************************************************************)
EXTENDS Integers, Sequences, FiniteSets, TLC

VARIABLES tcpu, tlast, tfix, tn, hart, hartU, env, sig, mapping, zfile

vars == <<tcpu, tlast, tfix, tn, hart, hartU, env, sig, mapping, zfile>>

\* The state of the base library (memory mappings, files being zeroed).
base == <<mapping, zfile>>

\* Option<T>: None, or Some(v).
None == [none |-> TRUE]

Some(v) == [some |-> v]

(***************************************************************************)
(* 64-bit words as bit sets                                                *)
(***************************************************************************)
Word == 0 .. 63

\* The word of a natural below 2^31.
Bits(n) == {i \in 0 .. 30 : (n \div (2 ^ i)) % 2 = 1}

RECURSIVE SumBits(_)
SumBits(v) == IF v = {} THEN 0
              ELSE LET i == CHOOSE x \in v : TRUE
                   IN  (2 ^ i) + SumBits(v \ {i})

\* Only words below 2^31 have a natural the model can hold.
IsSmall(v) == v \subseteq 0 .. 30

Val(v) == SumBits(v)

Shl(v, k) == {i + k : i \in v} \cap Word

Shr(v, k) == {i - k : i \in v} \cap Word

\* The carry into bit i of a + b: some lower bit generates a carry and every
\* bit between propagates it.
CarryInto(a, b, i) ==
    \E j \in 0 .. (i - 1) :
        /\ j \in a
        /\ j \in b
        /\ \A k \in (j + 1) .. (i - 1) : (k \in a) \/ (k \in b)

\* u64 addition: the wrapped sum and whether it overflowed.
Add64(a, b) ==
    [sum   |-> {i \in Word : ((i \in a) # (i \in b)) # CarryInto(a, b, i)},
     carry |-> CarryInto(a, b, 64)]

\* v < n for a natural n below 2^31.
LessThan(v, n) == IsSmall(v) /\ Val(v) < n

(***************************************************************************)
(* crate::riscv::common, as the trap engine uses it                        *)
(***************************************************************************)
xlen2bits(xlen) == IF xlen = "X32" THEN 32 ELSE 64

\* The MXL encoding of misa: 1 for 32 bits, 2 for 64 bits.
xlen2misa(xlen) == IF xlen = "X32" THEN Bits(1) ELSE Bits(2)

get_privilege_encoding(p) ==
    CASE p = "User" -> 0
      [] p = "Supervisor" -> 1
      [] p = "Machine" -> 3

\* The encoded cause: the code, with bit XLEN-1 set for an interrupt.
get_trap_cause(trp, xlen) ==
    Bits(trp.ttype.code) \cup
        (IF trp.ttype.intr THEN {xlen2bits(xlen) - 1} ELSE {})

Exc(code) == [intr |-> FALSE, code |-> code]

Intr(code) == [intr |-> TRUE, code |-> code]

InstructionAccessFault == Exc(1)

IllegalInstruction == Exc(2)

EnvironmentCallFromMMode == Exc(11)

InstructionPageFault == Exc(12)

LoadPageFault == Exc(13)

SupervisorTimerInterrupt == Intr(5)

\* A platform cause at or above 32: in range when XLEN=64 only.
PlatformException == Exc(40)

PlatformInterrupt == Intr(40)

(***************************************************************************)
(* handle_trap                                                             *)
(***************************************************************************)
\* let intr / reason &= !(1 << (bits - 1))
trap_is_interrupt(trp, xlen) ==
    (xlen2bits(xlen) - 1) \in get_trap_cause(trp, xlen)

trap_reason(trp, xlen) ==
    IF trap_is_interrupt(trp, xlen)
    THEN get_trap_cause(trp, xlen) \ {xlen2bits(xlen) - 1}
    ELSE get_trap_cause(trp, xlen)

trap_hsdeleg(h, trp) ==
    IF get_privilege_encoding(h.prvmode) <= get_privilege_encoding("Supervisor")
    THEN (IF trap_is_interrupt(trp, h.xlen) THEN h.csr.mideleg ELSE h.csr.medeleg)
    ELSE {}

trap_delegated_any_priv(h, trp) ==
    LET reason == trap_reason(trp, h.xlen)
        deleg  == IF trap_is_interrupt(trp, h.xlen)
                  THEN h.csr.mideleg ELSE h.csr.medeleg
    IN  /\ LessThan(reason, xlen2bits(h.xlen))
        /\ 0 \in Shr(deleg, Val(reason))

\* The condition of the supervisor branch.
trap_delegated_always(h, trp) == TRUE

trap_delegated(h, trp) ==
    LET reason == trap_reason(trp, h.xlen)
    IN  /\ get_privilege_encoding(h.prvmode) <= get_privilege_encoding("Supervisor")
        /\ LessThan(reason, xlen2bits(h.xlen))
        /\ 0 \in Shr(trap_hsdeleg(h, trp), Val(reason))

trap_vector_always(tvec, intr, reason) ==
    IF 0 \in tvec THEN Shl(reason, 2) ELSE {}

\* let vector = if ((tvec & 1) != 0) && intr { 4 * reason } else { 0 }
trap_vector(tvec, intr, reason) ==
    IF (0 \in tvec) /\ intr THEN Shl(reason, 2) ELSE {}

\* The value stored in scause / mcause: `reason`, after the interrupt bit
\* was cleared from it.
cause_written(trp, xlen) == trap_reason(trp, xlen)

sstatus_on_trap_keep_spp(status, penc) ==
    LET sie == IF 1 \in status THEN {5} ELSE {}
    IN  (status \ {1, 5}) \cup sie \cup Shl(Bits(penc) \cap {0}, 8)

\* status = (status & !0x122) | (sie << 5) | ((penc & 1) << 8)
sstatus_on_trap(status, penc) ==
    LET sie == IF 1 \in status THEN {5} ELSE {}
    IN  (status \ {1, 5, 8}) \cup sie \cup Shl(Bits(penc) \cap {0}, 8)

mstatus_on_trap_one_bit(status, penc) ==
    LET mie == IF 3 \in status THEN {7} ELSE {}
    IN  (status \ {3, 7, 11, 12}) \cup mie \cup Shl(Bits(penc) \cap {0}, 11)

\* status = (status & !0x1888) | (mie << 7) | (penc << 11)
mstatus_on_trap(status, penc) ==
    LET mie == IF 3 \in status THEN {7} ELSE {}
    IN  (status \ {3, 7, 11, 12}) \cup mie \cup Shl(Bits(penc), 11)

\* `+` on u64 panics on overflow when the build checks overflow and wraps
\* otherwise; the build is a field of the model's cpu.
handle_trap(h, trp, trapped_pc) ==
    LET intr   == trap_is_interrupt(trp, h.xlen)
        reason == trap_reason(trp, h.xlen)
        penc   == get_privilege_encoding(h.prvmode)
        super  == trap_delegated(h, trp)
        tvec   == IF super THEN h.csr.stvec ELSE h.csr.mtvec
        target == Add64(tvec \ {0}, trap_vector(tvec, intr, reason))
    IN  IF target.carry /\ h.overflow_checks
        THEN [h EXCEPT !.halted = "overflow"]
        ELSE IF super
        THEN [h EXCEPT !.pc = target.sum,
                       !.csr.scause = cause_written(trp, h.xlen),
                       !.csr.sepc = trapped_pc,
                       !.csr.stval = trp.val,
                       !.csr.sstatus = sstatus_on_trap(h.csr.sstatus, penc),
                       !.prvmode = "Supervisor"]
        ELSE [h EXCEPT !.pc = target.sum,
                       !.csr.mcause = cause_written(trp, h.xlen),
                       !.csr.mepc = trapped_pc,
                       !.csr.mtval = trp.val,
                       !.csr.mstatus = mstatus_on_trap(h.csr.mstatus, penc),
                       !.prvmode = "Machine"]

mstatus_fixup(xlen, m) ==
    LET a == m \ {6}
        b == IF xlen = "X64" THEN a \ {36, 37} ELSE a
        s == xlen2misa(xlen) \cap {0, 1}
    IN  IF xlen = "X64"
        THEN LET c == (b \ {32, 33}) \cup Shl(s, 32)
             IN  (c \ {34, 35}) \cup Shl(s, 34)
        ELSE b

(***************************************************************************)
(* The trap engine on its own: a cpu whose privilege and CSRs are drawn    *)
(* from small sets takes traps drawn from a small set.                     *)
(*   tcpu  : xlen, overflow_checks, prvmode, pc, csr, halted               *)
(*   tlast : the cpu before the last handle_trap, its trap and trapped pc  *)
(*   tfix  : the last application of mstatus_fixup                         *)
(*   tn    : the number of traps taken                                     *)
(***************************************************************************)
MaxTraps == 1

ZeroCsr ==
    [mstatus |-> {}, mtvec |-> {}, mepc |-> {}, mcause |-> {}, mtval |-> {},
     medeleg |-> {}, mideleg |-> {},
     sstatus |-> {}, stvec |-> {}, sepc |-> {}, scause |-> {}, stval |-> {}]

DelegVals == {{}, {5, 13, 40}}

\* 0x100 (direct), 0x201 (vectored)
StvecVals == {Bits(256), Bits(513)}

\* 0 (the CSR file after construction), 0x401 (vectored), and a vectored
\* base of 2^64 - 4, where adding 4 * cause overflows
MtvecVals == {{}, Bits(1025), Word \ {1}}

SstatusVals == {{}, {1, 18}, {5, 8, 18}}

MstatusVals == {{}, {3, 17, 33, 35}, {7, 11, 12}}

TrapTypes == {IllegalInstruction, LoadPageFault, PlatformException,
              SupervisorTimerInterrupt, PlatformInterrupt}

TrapVals == {Bits(47824)}

TrapPcs == {Bits(4096), {2, 12, 63}}

FixupInputs == {{}, {6, 36, 37}, Word, {1, 6, 32, 35}}

TrapInit ==
    /\ tcpu \in
         {[xlen |-> x, overflow_checks |-> o, prvmode |-> p, pc |-> {},
           halted |-> "no", regs |-> [r \in 0 .. 31 |-> r],
           csr |-> [ZeroCsr EXCEPT !.medeleg = ed, !.mideleg = id,
                                   !.stvec = sv, !.mtvec = mv,
                                   !.sstatus = ss, !.mstatus = ms]] :
            x \in {"X32", "X64"}, o \in BOOLEAN,
            p \in {"User", "Supervisor", "Machine"},
            ed \in DelegVals, id \in DelegVals,
            sv \in StvecVals, mv \in MtvecVals,
            ss \in SstatusVals, ms \in MstatusVals}
    /\ tlast = None
    /\ tfix = None
    /\ tn = 0
    /\ hart = None /\ hartU = None /\ env = None /\ sig = None
    /\ mapping = None /\ zfile = None

TrapDeliver ==
    /\ tn < MaxTraps
    /\ tfix = None
    /\ tcpu.halted = "no"
    /\ \E trp \in [ttype : TrapTypes, val : TrapVals], tpc \in TrapPcs :
          /\ tcpu' = handle_trap(tcpu, trp, tpc)
          /\ tlast' = [pre |-> tcpu, trp |-> trp, pc |-> tpc]
    /\ tn' = tn + 1
    /\ UNCHANGED <<base, tfix, hart, hartU, env, sig>>

FixupApply ==
    /\ tn = 0
    /\ tfix = None
    /\ \E m \in FixupInputs :
          tfix' = [xlen |-> tcpu.xlen, m |-> m,
                   out |-> mstatus_fixup(tcpu.xlen, m)]
    /\ UNCHANGED <<base, tcpu, tlast, tn, hart, hartU, env, sig>>

TrapNext == TrapDeliver \/ FixupApply

SpecTrap == TrapInit /\ [][TrapNext]_vars

\* A trap has been delivered (handle_trap ran to its end).
Delivered == tlast # None /\ tcpu.halted = "no"

TookSupervisor == Delivered /\ tcpu.prvmode = "Supervisor"

TookMachine == Delivered /\ tcpu.prvmode = "Machine"

\* The claims' own reading of a trap: its number and its kind.
CauseNumber == tlast.trp.ttype.code

IsInterrupt == tlast.trp.ttype.intr

(* C4: after a supervisor delivery sepc is the trapped pc, stval the trap's
   tval, SPIE (bit 5) the old SIE (bit 1), SIE is 0, SPP (bit 8) is 0 from
   User and 1 from Supervisor, the other sstatus bits are unchanged and the
   privilege is Supervisor. *)
C4_SupervisorDelivery ==
    TookSupervisor =>
        /\ tcpu.csr.sepc = tlast.pc
        /\ tcpu.csr.stval = tlast.trp.val
        /\ (5 \in tcpu.csr.sstatus) = (1 \in tlast.pre.csr.sstatus)
        /\ 1 \notin tcpu.csr.sstatus
        /\ tlast.pre.prvmode \in {"User", "Supervisor"}
        /\ (8 \in tcpu.csr.sstatus) = (tlast.pre.prvmode = "Supervisor")
        /\ tcpu.csr.sstatus \ {1, 5, 8} = tlast.pre.csr.sstatus \ {1, 5, 8}
        /\ tcpu.prvmode = "Supervisor"

C4_Witness ==
    /\ TookSupervisor
    /\ tlast.pre.prvmode = "User"
    /\ 8 \in tlast.pre.csr.sstatus
    /\ 18 \in tcpu.csr.sstatus

(* C5: after a machine delivery MPP (bits 11-12) is 0 from User, 1 from
   Supervisor and 3 from Machine, MPIE (bit 7) is the old MIE (bit 3), MIE
   is 0, the other mstatus bits are unchanged, mepc is the trapped pc, mtval
   the trap's tval and the privilege is Machine. *)
C5_MachineDelivery ==
    TookMachine =>
        /\ tcpu.csr.mstatus \cap {11, 12} =
               (CASE tlast.pre.prvmode = "User" -> {}
                  [] tlast.pre.prvmode = "Supervisor" -> {11}
                  [] tlast.pre.prvmode = "Machine" -> {11, 12})
        /\ (7 \in tcpu.csr.mstatus) = (3 \in tlast.pre.csr.mstatus)
        /\ 3 \notin tcpu.csr.mstatus
        /\ tcpu.csr.mstatus \ {3, 7, 11, 12} =
               tlast.pre.csr.mstatus \ {3, 7, 11, 12}
        /\ tcpu.csr.mepc = tlast.pc
        /\ tcpu.csr.mtval = tlast.trp.val
        /\ tcpu.prvmode = "Machine"

C5_Witness ==
    /\ TookMachine
    /\ tlast.pre.prvmode = "Machine"
    /\ 3 \in tlast.pre.csr.mstatus
    /\ 17 \in tcpu.csr.mstatus

(* C6: a trap is taken in supervisor mode iff the privilege it was raised at
   is User or Supervisor, its cause number is below XLEN and bit `cause` of
   medeleg (exception) or mideleg (interrupt) is 1; otherwise, and always
   from Machine, it is taken in machine mode. *)
C6_Delegation ==
    Delivered =>
        /\ tcpu.prvmode \in {"Supervisor", "Machine"}
        /\ (tcpu.prvmode = "Supervisor") =
              (/\ tlast.pre.prvmode \in {"User", "Supervisor"}
               /\ CauseNumber < xlen2bits(tlast.pre.xlen)
               /\ CauseNumber \in (IF IsInterrupt
                                   THEN tlast.pre.csr.mideleg
                                   ELSE tlast.pre.csr.medeleg))

C6_Witness ==
    /\ TookMachine
    /\ tlast.pre.prvmode = "Machine"
    /\ ~IsInterrupt
    /\ CauseNumber \in tlast.pre.csr.medeleg

(* C7: the new pc is (tvec & ~1) + 4 * cause when tvec bit 0 is 1 and the
   trap is an interrupt, and (tvec & ~1) otherwise, tvec being stvec for a
   supervisor delivery and mtvec for a machine delivery. *)
DeliveryTvec ==
    IF tcpu.prvmode = "Supervisor"
    THEN tlast.pre.csr.stvec ELSE tlast.pre.csr.mtvec

C7_VectoredPc ==
    Delivered =>
        tcpu.pc = IF (0 \in DeliveryTvec) /\ IsInterrupt
                  THEN Add64(DeliveryTvec \ {0}, Bits(4 * CauseNumber)).sum
                  ELSE DeliveryTvec \ {0}

C7_Witness ==
    /\ Delivered
    /\ 0 \in DeliveryTvec
    /\ ~IsInterrupt
    /\ tcpu.pc = DeliveryTvec \ {0}
    /\ tcpu.pc # {}

(* C8: the value written to scause / mcause is the encoded cause: bit XLEN-1
   set together with the interrupt number for an interrupt, the exception
   code with that bit 0 for an exception. *)
C8_EncodedCause ==
    Delivered =>
        (IF tcpu.prvmode = "Supervisor"
         THEN tcpu.csr.scause ELSE tcpu.csr.mcause) =
            (Bits(CauseNumber) \cup
                (IF IsInterrupt THEN {xlen2bits(tcpu.xlen) - 1} ELSE {}))

(* C9: after every write to mstatus, bit 6 is 0 and, when XLEN=64, bits 36
   and 37 are 0 and sxl (bits 34-35) and uxl (bits 32-33) equal the mxl
   encoding; mstatus_fixup changes no other bit, and only bit 6 when
   XLEN=32. *)
MstatusFixed(xlen, m) ==
    /\ 6 \notin m
    /\ xlen = "X64" =>
          /\ 36 \notin m /\ 37 \notin m
          /\ Shr(m, 34) \cap {0, 1} = xlen2misa(xlen)
          /\ Shr(m, 32) \cap {0, 1} = xlen2misa(xlen)

FixupTouched(xlen) == IF xlen = "X64" THEN {6} \cup (32 .. 37) ELSE {6}

C9_MstatusFixup ==
    /\ TookMachine => MstatusFixed(tcpu.xlen, tcpu.csr.mstatus)
    /\ tfix # None =>
          /\ MstatusFixed(tfix.xlen, tfix.out)
          /\ tfix.out \ FixupTouched(tfix.xlen) = tfix.m \ FixupTouched(tfix.xlen)

(***************************************************************************)
(* Guest memory as the executor sees it.                                   *)
(*   env.start  : the address the program is loaded at                     *)
(*   env.code   : instruction start address -> token [len, kind]           *)
(*   env.mapped : the pages virt2phys translates for Execute               *)
(*   env.backed : the pages whose physical memory can be read              *)
(* Translation is the identity on mapped pages, so a physical address has  *)
(* the page offset of its virtual address.  Memory outside the program     *)
(* holds wfi.                                                              *)
(***************************************************************************)
RISCV_PAGE_SHIFT == 12

RISCV_PAGE_SIZE == 4096

RISCV_PAGE_OFFSET == 4095

\* addr >> RISCV_PAGE_SHIFT
PageNumber(addr) == addr \div (2 ^ RISCV_PAGE_SHIFT)

\* addr & RISCV_PAGE_OFFSET
PageOffset(addr) == addr % (RISCV_PAGE_OFFSET + 1)

\* addr & !RISCV_PAGE_OFFSET
PageBase(addr) == addr - PageOffset(addr)

Tok(len, kind) == [len |-> len, kind |-> kind]

WfiToken == Tok(4, "wfi")

TokenAt(e, addr) ==
    IF addr \in DOMAIN e.code THEN e.code[addr] ELSE WfiToken

Ok(v) == [ok |-> TRUE, v |-> v]

Err(t) == [ok |-> FALSE, trap |-> t]

Trap(ttype, addr) == [ttype |-> ttype, val |-> Bits(addr)]

\* self.mem_trap(MemAccessType::Execute, curpc)
mem_trap(addr) == Trap(InstructionPageFault, addr)

\* self.memsource.virt2phys(curpc, macc) for an Execute access
virt2phys(e, addr) ==
    IF PageNumber(addr) \in e.mapped THEN Ok(addr) ELSE Err(mem_trap(addr))

\* self.read16(iaddr, true, false): a read of a physical address
read16(e, addr) ==
    IF PageNumber(addr) \in e.backed
    THEN Ok(TokenAt(e, addr))
    ELSE Err(Trap(InstructionAccessFault, addr))

\* self.read32(self.pc, true, true): translate and read four bytes; the
\* read fails when either half-word cannot be fetched.
read32(e, addr) ==
    LET Bad(a) == PageNumber(a) \notin (e.mapped \cap e.backed)
        Fault(a) == IF PageNumber(a) \notin e.mapped
                    THEN Err(Trap(InstructionPageFault, a))
                    ELSE Err(Trap(InstructionAccessFault, a))
    IN  IF Bad(addr) THEN Fault(addr)
        ELSE IF Bad(addr + 2) THEN Fault(addr + 2)
        ELSE Ok(TokenAt(e, addr))

\* decoder::decode / decoder16::decode: false for an unrecognized word.
decode_ok(tok) == tok.kind # "illegal"

\* The decoders set stop_translating for control transfers, environment
\* calls and wfi.
decode_stops(tok) == tok.kind \in {"jal", "ecall", "wfi", "jmid", "jtrap"}

(***************************************************************************)
(* build_exec and check_block                                              *)
(***************************************************************************)
Instr(inc_by, kind) == [inc_by |-> inc_by, kind |-> kind]

BlockEndOnePast(iaddr, inc_by) == iaddr

\* self.current_block.end = iaddr - inc_by
BlockEnd(iaddr, inc_by) == iaddr - inc_by

never_needs_more(tok, max_count) == FALSE

\* build_exec: an uncompressed instruction with `if max_count < 4 { break; }`
needs_more_bytes(tok, max_count) == tok.len = 4 /\ max_count < 4

\* The while loop of build_exec from (iaddr, max_count) with `instrs`
\* decoded so far.  out: "ok" (the loop ended), "fault" (a read16 returned
\* Err, propagated by `?`), "panic" (self.illegal_instr()).
RECURSIVE build_loop(_, _, _, _, _, _)
build_loop(e, iaddr, max_count, instrs, inc_by, compressed) ==
    LET done(o, t) == [out |-> o, instrs |-> instrs, iaddr |-> iaddr,
                       inc_by |-> inc_by, is_compressed |-> compressed,
                       stop_translating |-> FALSE, trap |-> t]
        lower == read16(e, iaddr)
    IN  IF max_count < 2 THEN done("ok", None)
        ELSE IF ~lower.ok THEN done("fault", lower.trap)
        ELSE IF needs_more_bytes(lower.v, max_count) THEN done("ok", None)
        ELSE IF lower.v.len = 4 /\ ~read16(e, iaddr + 2).ok
             THEN done("fault", read16(e, iaddr + 2).trap)
        ELSE LET tok   == lower.v
                 appended == Append(instrs, Instr(tok.len, tok.kind))
             IN  IF ~decode_ok(tok)
                 THEN [done("panic", None) EXCEPT
                           !.is_compressed = (tok.len = 2)]
                 ELSE IF decode_stops(tok)
                 THEN [out |-> "ok", instrs |-> appended,
                       iaddr |-> iaddr + tok.len, inc_by |-> tok.len,
                       is_compressed |-> (tok.len = 2),
                       stop_translating |-> TRUE, trap |-> None]
                 ELSE build_loop(e, iaddr + tok.len, max_count - tok.len,
                                 appended, tok.len, tok.len = 2)

index_replace(instr, blk) ==
    LET hashaddr == PageNumber(blk.begin)
    IN  [p \in DOMAIN instr \cup {hashaddr} |->
            IF p = hashaddr THEN <<blk>> ELSE instr[p]]

\* The block index with `blk` pushed on the list of its page.
index_push(instr, blk) ==
    LET hashaddr == PageNumber(blk.begin)
    IN  [p \in DOMAIN instr \cup {hashaddr} |->
            IF p = hashaddr
            THEN (IF p \in DOMAIN instr THEN Append(instr[p], blk) ELSE <<blk>>)
            ELSE instr[p]]

\* build_exec(addr): the hart after it and the Result it returns.
build_exec(e, h, addr) ==
    LET max_count == RISCV_PAGE_SIZE - PageOffset(addr)
        r   == build_loop(e, addr, max_count, <<>>, 0, h.is_compressed)
        cur == [begin |-> addr, end |-> h.current_block.end, instrs |-> r.instrs]
        h1  == [h EXCEPT !.stop_translating = r.stop_translating,
                         !.is_compressed = r.is_compressed,
                         !.current_block = cur]
    IN  CASE r.out = "panic" ->
               [hart |-> [h1 EXCEPT !.halted = "illegal_instr",
                                    !.rejected = Some(r.iaddr)],
                res |-> Ok(TRUE)]
          [] r.out = "fault" -> [hart |-> h1, res |-> Err(r.trap)]
          [] r.out = "ok" ->
               LET blk == [cur EXCEPT !.end = BlockEnd(r.iaddr, r.inc_by)]
               IN  [hart |-> [h1 EXCEPT !.current_block = blk,
                                        !.instr = index_push(h.instr, blk)],
                    res |-> Ok(TRUE)]

check_block_last_only(h, addr) ==
    LET retaddr == PageNumber(addr)
        z       == h.instr[retaddr]
    IN  IF retaddr \in DOMAIN h.instr /\ z[Len(z)].begin = addr
        THEN [kind |-> "some", blk |-> z[Len(z)]]
        ELSE [kind |-> "none"]

\* check_block(addr): "none", "some" with the block, or "panic" when the
\* block found crosses a page (the bug check).
check_block(h, addr) ==
    LET retaddr == PageNumber(addr)
    IN  IF retaddr \notin DOMAIN h.instr THEN [kind |-> "none"]
        ELSE LET z    == h.instr[retaddr]
                 hits == {i \in 1 .. Len(z) : z[i].begin = addr}
             IN  IF hits = {} THEN [kind |-> "none"]
                 ELSE LET i == CHOOSE x \in hits : \A y \in hits : x <= y
                      IN  IF PageBase(z[i].begin) # PageBase(z[i].end)
                          THEN [kind |-> "panic"]
                          ELSE [kind |-> "some", blk |-> z[i]]

(***************************************************************************)
(* The hart.  Besides the fields of RiscvInt the record holds the position *)
(* of the hart in run():                                                   *)
(*   loc  : "run" (top of the loop of run), "cached" (top of the loop of   *)
(*          exec_cached_int), "block" (in exec_block_inner, before         *)
(*          instruction idx of blk), "one" (top of the loop of             *)
(*          exec_one_by_one), "after" (run, after the execution pass)      *)
(*   mode : the branch of run that called the pass                         *)
(*   halted : "no", or the panic that ended the emulator                   *)
(* and history fields: rejected (the address of an instruction the decoder  *)
(* rejected), last (the instruction executed last), build_fault (the Err a  *)
(* build_exec returned in this pass), handled (the trap the last iteration  *)
(* of run handled) and pass_blocks (the blocks exec_cached_int has entered  *)
(* since run called it, counted up to 2) and signalled (the last           *)
(* iteration of run called setup_rt_frame).                                *)
(***************************************************************************)
NoBlock == [begin |-> 0, end |-> 0, instrs |-> <<>>]

InitHart(usermode) ==
    [regs |-> [r \in 0 .. 31 |-> 0],
     pc |-> 0, want_pc |-> None, xlen |-> "X64", csr |-> ZeroCsr,
     trap_pc |-> 0, instr |-> <<>>, trap |-> None,
     current_block |-> NoBlock, prvmode |-> "Machine",
     stop_translating |-> FALSE, stop_exec |-> FALSE,
     cache_enabled |-> FALSE, wfi |-> FALSE, usermode |-> usermode,
     is_reservation |-> FALSE, is_compressed |-> FALSE,
     overflow_checks |-> FALSE, halted |-> "no",
     loc |-> "run", mode |-> "uncached", blk |-> NoBlock, idx |-> 0,
     rejected |-> None, last |-> None, sysin |-> None,
     build_fault |-> None, handled |-> None, pass_blocks |-> 0,
     signalled |-> FALSE]

init_systemmode == InitHart(FALSE)

init_usermode == InitHart(TRUE)

get_pc_of_current_instr(h) == h.pc

get_pc_of_next_instr(h) == IF h.is_compressed THEN h.pc + 2 ELSE h.pc + 4

set_trap_no_stop(h, trp) ==
    [h EXCEPT !.trap = Some(trp), !.trap_pc = get_pc_of_current_instr(h)]

set_trap(h, trp) ==
    [h EXCEPT !.trap = Some(trp),
              !.trap_pc = get_pc_of_current_instr(h),
              !.stop_exec = TRUE]

\* The handlers the decoders dispatch to, by kind of instruction:
\*   li5   : c.li x5, 1            addi0 : addi x0, x0, 1
\*   jal   : jump to the start of the program, linking x1
\*   load  : a load whose address faults
\*   ecall, wfi
\*   lr    : lr.w, which takes the hart's reservation
\*   jmid  : c.j to the second half-word of the program
\*   jtrap : a jump that requests its target and then raises a trap
exec_handler(e, h, kind) ==
    CASE kind = "li5" -> [h EXCEPT !.regs[5] = 1]
      [] kind = "addi0" -> [h EXCEPT !.regs[0] = 1]
      [] kind = "jal" ->
           [h EXCEPT !.regs[1] = get_pc_of_next_instr(h),
                     !.want_pc = Some(e.start),
                     !.stop_exec = TRUE]
      [] kind = "load" ->
           set_trap(h, Trap(LoadPageFault, 2 * RISCV_PAGE_SIZE + 16))
      [] kind = "ecall" -> set_trap(h, Trap(EnvironmentCallFromMMode, 0))
      [] kind = "wfi" -> [h EXCEPT !.wfi = TRUE, !.stop_exec = TRUE]
      [] kind = "lr" -> [h EXCEPT !.is_reservation = TRUE]
      [] kind = "jmid" ->
           [h EXCEPT !.want_pc = Some(e.start + 2), !.stop_exec = TRUE]
      [] kind = "jtrap" ->
           set_trap([h EXCEPT !.want_pc = Some(e.start)],
                    Trap(LoadPageFault, 2 * RISCV_PAGE_SIZE + 16))

\* self.illegal_instr(): panic!()
illegal_instr(h, addr) ==
    [h EXCEPT !.halted = "illegal_instr", !.rejected = Some(addr)]

run_return_cache_untouched(h, res) ==
    [h EXCEPT !.trap = IF res.ok THEN @ ELSE Some(res.trap), !.loc = "after"]

\* run: match self.exec_...() { Ok(()) => {}, Err(z) => self.trap = Some(z) },
\* and cache_enabled = true after the cached pass.
run_return(h, res) ==
    [h EXCEPT !.trap = IF res.ok THEN @ ELSE Some(res.trap),
              !.cache_enabled = IF h.mode = "cached" THEN TRUE ELSE @,
              !.loc = "after"]

\* run: if self.cache_enabled { exec_cached_int } else { exec_one_by_one }
run_enter(h) ==
    IF h.cache_enabled
    THEN [h EXCEPT !.mode = "cached", !.loc = "cached",
                   !.build_fault = None, !.pass_blocks = 0]
    ELSE [h EXCEPT !.mode = "uncached", !.loc = "one",
                   !.build_fault = None, !.pass_blocks = 0]

block_regs_unzeroed(regs) == regs

\* exec_block_inner: self.regs[0] = 0
block_zero_reg0(regs) == [regs EXCEPT ![0] = 0]

\* exec_one_by_one: self.regs[0] = 0
one_zero_reg0(regs) == [regs EXCEPT ![0] = 0]

\* exec_block_inner(blk): self.stop_exec = false, then the first instruction
enter_block(h, blk) ==
    [h EXCEPT !.stop_exec = FALSE, !.blk = blk, !.idx = 1,
              !.pass_blocks = IF @ < 2 THEN @ + 1 ELSE @,
              !.loc = IF Len(blk.instrs) = 0 THEN "cached" ELSE "block"]

block_never_stops(h) == FALSE

\* exec_block_inner: if self.stop_exec { return; }
block_stops(h) == h.stop_exec

\* One instruction of the loop of exec_block_inner, and what follows when
\* the loop ends: exec_cached_int returns if stop_exec and loops otherwise.
exec_block_inner_step(e, h) ==
    LET z  == h.blk.instrs[h.idx]
        h1 == [h EXCEPT !.is_compressed = (z.inc_by = 2)]
        h2 == exec_handler(e, h1, z.kind)
        h3 == [h2 EXCEPT !.pc = @ + z.inc_by,
                         !.regs = block_zero_reg0(@),
                         !.last = [pc |-> h.pc, kind |-> z.kind,
                                   len |-> z.inc_by, via |-> "block"]]
    IN  IF block_stops(h3) THEN run_return(h3, Ok(TRUE))
        ELSE IF h.idx = Len(h.blk.instrs) THEN [h3 EXCEPT !.loc = "cached"]
        ELSE [h3 EXCEPT !.idx = @ + 1]

\* One iteration of the loop of exec_one_by_one.
exec_one_by_one_step(e, h) ==
    LET r == read32(e, h.pc)
    IN  IF ~r.ok THEN run_return(h, r)
        ELSE LET tok == r.v
                 h1  == [h EXCEPT !.is_compressed = (tok.len = 2)]
             IN  IF ~decode_ok(tok) THEN illegal_instr(h1, h.pc)
                 ELSE LET h2 == exec_handler(e, h1, tok.kind)
                          h3 == [h2 EXCEPT
                                   !.pc = @ + tok.len,
                                   !.regs = one_zero_reg0(@),
                                   !.last = [pc |-> h.pc, kind |-> tok.kind,
                                             len |-> tok.len, via |-> "one"]]
                      IN  IF h3.stop_exec THEN run_return(h3, Ok(TRUE))
                          ELSE h3

\* One iteration of the loop of exec_cached_int, up to the first
\* instruction of the block it runs.
exec_cached_int_iter(e, h) ==
    LET curpc     == get_pc_of_current_instr(h)
        max_count == RISCV_PAGE_SIZE - PageOffset(curpc)
        phys      == virt2phys(e, curpc)
    IN  IF max_count < 4
        THEN [h EXCEPT !.stop_exec = TRUE, !.cache_enabled = FALSE,
                       !.loc = "one"]
        ELSE IF ~phys.ok
        THEN run_return([h EXCEPT !.stop_exec = TRUE], phys)
        ELSE LET found == check_block(h, phys.v)
             IN  CASE found.kind = "panic" -> [h EXCEPT !.halted = "bug_check"]
                   [] found.kind = "some" -> enter_block(h, found.blk)
                   [] found.kind = "none" ->
                        \* the Result of build_exec is dropped
                        LET b0    == build_exec(e, h, phys.v)
                            b     == [b0 EXCEPT !.hart.build_fault =
                                         IF b0.res.ok THEN @ ELSE Some(b0.res.trap)]
                            again == check_block(b.hart, phys.v)
                        IN  IF b.hart.halted # "no" THEN b.hart
                            ELSE CASE again.kind = "none" ->
                                        [b.hart EXCEPT !.halted = "unwrap_none"]
                                   [] again.kind = "panic" ->
                                        [b.hart EXCEPT !.halted = "bug_check"]
                                   [] again.kind = "some" ->
                                        enter_block(b.hart, again.blk)

(***************************************************************************)
(* The rest of an iteration of run: the trap slot, the signal poll,        *)
(* want_pc and wfi.                                                        *)
(***************************************************************************)
\* riscv_translate_syscall: the table of the numbers the runtime knows;
\* any other number is the Unsupported variant.
KnownSyscalls == {64, 93}

\* The variant for a number without an entry.
Unsupported == 0 - 1

riscv_translate_syscall(n) ==
    Some(IF n \in KnownSyscalls THEN n ELSE Unsupported)

\* What dispatch may return.
DispatchOutcomes ==
    {[ret1 |-> 3, ret2 |-> None], [ret1 |-> 4, ret2 |-> Some(9)]}

handle_syscall_always_a1(h, out) ==
    LET systype == riscv_translate_syscall(h.regs[17] % 65536).some
        sysin   == [syscall |-> systype,
                    args |-> <<h.regs[10], h.regs[11], h.regs[12],
                               h.regs[13], h.regs[14], h.regs[15], 0>>]
    IN  [h EXCEPT !.sysin = sysin, !.regs[10] = out.ret1,
                  !.regs[11] = IF out.ret2 # None THEN out.ret2.some ELSE 0]

\* handle_syscall, `out` being what dispatch returns.
handle_syscall(h, out) ==
    LET syscallnum == h.regs[17]
        systype    == riscv_translate_syscall(syscallnum % 65536).some
        sysin      == [syscall |-> systype,
                       args |-> <<h.regs[10], h.regs[11], h.regs[12],
                                  h.regs[13], h.regs[14], h.regs[15], 0>>]
        h1         == [h EXCEPT !.sysin = sysin, !.regs[10] = out.ret1]
    IN  IF out.ret2 # None THEN [h1 EXCEPT !.regs[11] = out.ret2.some] ELSE h1

\* handle_trap on the hart: the pc and the trapped pc as words.
hart_handle_trap(h) ==
    LET t == handle_trap([xlen |-> h.xlen, overflow_checks |-> h.overflow_checks,
                          prvmode |-> h.prvmode, pc |-> Bits(h.pc),
                          csr |-> h.csr, halted |-> h.halted],
                         h.trap.some, Bits(h.trap_pc))
    IN  [h EXCEPT !.pc = Val(t.pc), !.csr = t.csr, !.prvmode = t.prvmode,
                  !.halted = t.halted]

\* The address of the registered signal handler.
SigHandlerPc == RISCV_PAGE_SIZE \div 2

\* setup_rt_frame: retarget pc to the handler, the signal number in a0.
setup_rt_frame(h, signum) ==
    [h EXCEPT !.pc = SigHandlerPc, !.regs[10] = signum]

poll_signal_keep_flag(h, sg) ==
    IF sg.avail
    THEN [hart |-> setup_rt_frame(h, sg.use_idx.some),
          sig |-> [sg EXCEPT !.framed = @ + 1, !.signum = sg.use_idx]]
    ELSE [hart |-> h, sig |-> sg]

\* SIGNAL_AVAIL.with(..): the hart and the thread-locals after the poll.
\* sg.framed counts the calls of setup_rt_frame and sg.signum is the signal
\* number of the last call.
poll_signal(h, sg) ==
    IF sg.avail
    THEN [hart |-> setup_rt_frame(h, sg.use_idx.some),
          sig |-> [sg EXCEPT !.avail = FALSE, !.framed = @ + 1,
                             !.signum = sg.use_idx]]
    ELSE [hart |-> h, sig |-> sg]

run_tail_drop_want_pc(h) ==
    IF h.wfi THEN [h EXCEPT !.halted = "wfi_unimplemented"]
    ELSE [h EXCEPT !.want_pc = None, !.stop_exec = FALSE, !.loc = "run"]

\* if let Some(f) = self.want_pc ..; if self.wfi ..; self.stop_exec = false
run_tail(h) ==
    LET h1 == IF h.want_pc # None
              THEN [h EXCEPT !.pc = h.want_pc.some, !.want_pc = None]
              ELSE h
    IN  IF h1.wfi THEN [h1 EXCEPT !.halted = "wfi_unimplemented"]
        ELSE [h1 EXCEPT !.stop_exec = FALSE, !.loc = "run"]

after_trap_keep_want_pc(t) ==
    [t EXCEPT !.trap_pc = 0, !.trap = None, !.wfi = FALSE, !.stop_exec = FALSE]

\* run, after handle_trap: trap_pc, trap, want_pc, wfi and stop_exec reset
after_trap_reset(t) ==
    [t EXCEPT !.trap_pc = 0, !.trap = None, !.want_pc = None, !.wfi = FALSE,
              !.stop_exec = FALSE]

is_syscall_trap_any(trp) == TRUE

\* run: if trp.ttype == EnvironmentCallFromMMode
is_syscall_trap(trp) == trp.ttype = EnvironmentCallFromMMode

\* run, from `if self.trap.is_some()` to the end of the iteration.
run_after(h, sg, out) ==
    IF h.trap # None /\ ~h.usermode
    THEN LET t == hart_handle_trap(h)
         IN  [hart |-> IF t.halted # "no" THEN t
                       ELSE [after_trap_reset(t) EXCEPT
                                 !.loc = "run", !.signalled = FALSE,
                                 !.handled = [trap |-> h.trap.some,
                                              by |-> "handle_trap"]],
              sig |-> sg]
    ELSE IF h.trap # None /\ ~is_syscall_trap(h.trap.some)
    THEN [hart |-> [h EXCEPT !.halted = "protection_error"], sig |-> sg]
    ELSE LET h1 == IF h.trap # None
                   THEN [handle_syscall(h, out) EXCEPT
                             !.stop_exec = FALSE, !.trap = None,
                             !.handled = [trap |-> h.trap.some,
                                          by |-> "handle_syscall"]]
                   ELSE [h EXCEPT !.handled = None]
             p  == poll_signal(h1, sg)
         IN  [hart |-> run_tail([p.hart EXCEPT !.signalled = sg.avail]),
              sig |-> p.sig]

(***************************************************************************)
(* The executor: one hart running run() on a program drawn from Programs,  *)
(* loaded at one of Starts, the last half-words of page 0.                 *)
(***************************************************************************)
MaxProg == 2

StartSlots == 4

MaxSignals == 1

ProgTokens ==
    {Tok(2, "li5"), Tok(4, "addi0"), Tok(2, "jal"), Tok(4, "load"),
     Tok(4, "ecall"), Tok(4, "lr"), Tok(2, "jmid"), Tok(4, "jtrap"),
     Tok(2, "illegal"), Tok(4, "illegal")}

Programs == UNION {[1 .. n -> ProgTokens] : n \in 1 .. MaxProg}

Starts == {RISCV_PAGE_SIZE - 2 * k : k \in 1 .. StartSlots}

RECURSIVE AddrOf(_, _, _)
AddrOf(start, prog, i) ==
    IF i = 1 THEN start ELSE AddrOf(start, prog, i - 1) + prog[i - 1].len

\* The program laid out from `start`: address -> token.
Layout(start, prog) ==
    [a \in {AddrOf(start, prog, i) : i \in 1 .. Len(prog)} |->
        prog[CHOOSE i \in 1 .. Len(prog) : AddrOf(start, prog, i) = a]]

\* Page 0 is mapped and backed; page 1 is fetchable, unmapped, or mapped but
\* not backed by memory.
PageConfigs ==
    {[mapped |-> {0, 1}, backed |-> {0, 1}],
     [mapped |-> {0}, backed |-> {0, 1}],
     [mapped |-> {0, 1}, backed |-> {0}]}

Envs ==
    {[start |-> st, code |-> Layout(st, prog),
      mapped |-> pc.mapped, backed |-> pc.backed] :
        st \in Starts, prog \in Programs, pc \in PageConfigs}

TrapIdle ==
    /\ tcpu = None /\ tlast = None /\ tfix = None /\ tn = 0
    /\ mapping = None /\ zfile = None

Init ==
    /\ TrapIdle
    /\ env \in Envs
    /\ \E um \in BOOLEAN, ce \in BOOLEAN :
          hart = [InitHart(um) EXCEPT !.pc = env.start,
                                      !.cache_enabled = ce,
                                      !.regs[17] = IF um THEN 64 ELSE 0]
    /\ hartU = None
    /\ sig = [avail |-> FALSE, use_idx |-> None, raised |-> 0, framed |-> 0,
              signum |-> None]

Running == hart.halted = "no"

RunEnter ==
    /\ Running /\ hart.loc = "run"
    /\ hart' = run_enter(hart)
    /\ UNCHANGED <<base, tcpu, tlast, tfix, tn, hartU, env, sig>>

CachedIter ==
    /\ Running /\ hart.loc = "cached"
    /\ hart' = exec_cached_int_iter(env, hart)
    /\ UNCHANGED <<base, tcpu, tlast, tfix, tn, hartU, env, sig>>

BlockStep ==
    /\ Running /\ hart.loc = "block"
    /\ hart' = exec_block_inner_step(env, hart)
    /\ UNCHANGED <<base, tcpu, tlast, tfix, tn, hartU, env, sig>>

OneStep ==
    /\ Running /\ hart.loc = "one"
    /\ hart' = exec_one_by_one_step(env, hart)
    /\ UNCHANGED <<base, tcpu, tlast, tfix, tn, hartU, env, sig>>

RunAfter ==
    /\ Running /\ hart.loc = "after"
    /\ \E out \in (IF hart.usermode /\ hart.trap # None
                   THEN DispatchOutcomes
                   ELSE {[ret1 |-> 0, ret2 |-> None]}) :
          LET r == run_after(hart, sig, out)
          IN  hart' = r.hart /\ sig' = r.sig
    /\ UNCHANGED <<base, tcpu, tlast, tfix, tn, hartU, env>>

SignalNumbers == {10, 12}

\* The host delivers a signal to the emulator thread: its handler records
\* the signal in SINFO and sets SIGNAL_AVAIL.
SignalArrives ==
    /\ Running /\ hart.usermode
    /\ ~sig.avail /\ sig.raised < MaxSignals
    /\ \E s \in SignalNumbers :
          sig' = [sig EXCEPT !.avail = TRUE, !.use_idx = Some(s),
                             !.raised = @ + 1]
    /\ UNCHANGED <<base, tcpu, tlast, tfix, tn, hart, hartU, env>>

Next == RunEnter \/ CachedIter \/ BlockStep \/ OneStep \/ RunAfter \/ SignalArrives

Spec == Init /\ [][Next]_vars

(***************************************************************************)
(* Cached against uncached execution: the same program run by two harts in *)
(* system mode, `hart` with cache_enabled set by the embedder and `hartU`  *)
(* without.  The uncached hart runs once the cached one has stopped.       *)
(***************************************************************************)
NoSignal ==
    [avail |-> FALSE, use_idx |-> None, raised |-> 0, framed |-> 0,
     signum |-> None]

\* One step of run() on a hart in system mode.
HartStep(e, h) ==
    CASE h.loc = "run" -> run_enter(h)
      [] h.loc = "cached" -> exec_cached_int_iter(e, h)
      [] h.loc = "block" -> exec_block_inner_step(e, h)
      [] h.loc = "one" -> exec_one_by_one_step(e, h)
      [] h.loc = "after" ->
           run_after(h, NoSignal, [ret1 |-> 0, ret2 |-> None]).hart

EquivInit ==
    /\ TrapIdle
    /\ env \in Envs
    /\ hart = [init_systemmode EXCEPT !.pc = env.start, !.cache_enabled = TRUE]
    /\ hartU = [init_systemmode EXCEPT !.pc = env.start]
    /\ sig = NoSignal

EquivCached ==
    /\ hart.halted = "no"
    /\ hart' = HartStep(env, hart)
    /\ UNCHANGED <<base, tcpu, tlast, tfix, tn, hartU, env, sig>>

EquivUncached ==
    /\ hart.halted # "no" /\ hartU.halted = "no"
    /\ hartU' = HartStep(env, hartU)
    /\ UNCHANGED <<base, tcpu, tlast, tfix, tn, hart, env, sig>>

EquivNext == EquivCached \/ EquivUncached

SpecEquiv == EquivInit /\ [][EquivNext]_vars

(***************************************************************************)
(* Properties of the block cache and the execution loops                   *)
(***************************************************************************)
StoredBlocks == UNION {{hart.instr[p][i] : i \in 1 .. Len(hart.instr[p])} :
                          p \in DOMAIN hart.instr}

(* C1: every block build_exec stores in the block index has begin and end  *)
(* on the same page, whatever the start address and the mix of 16-bit and  *)
(* 32-bit instructions, and check_block never reaches its bug check.       *)
C1_BlockInOnePage ==
    /\ \A b \in StoredBlocks : PageBase(b.begin) = PageBase(b.end)
    /\ hart.halted # "bug_check"

\* A stored block of a 32-bit and a 16-bit instruction whose last
\* instruction is the last half-word of the page.
C1_Witness ==
    \E b \in StoredBlocks :
        /\ PageOffset(b.end) = RISCV_PAGE_OFFSET - 1
        /\ \E i, j \in 1 .. Len(b.instrs) :
              b.instrs[i].inc_by = 2 /\ b.instrs[j].inc_by = 4
        /\ hart.loc = "block"

(* C2: at every instruction boundary of exec_block_inner and of            *)
(* exec_one_by_one register 0 is 0, also when the handler that just ran    *)
(* wrote register 0 or raised a trap.                                      *)
C2_RegZero == hart.regs[0] = 0

\* The block loop has just run `addi x0, x0, 1`.
C2_Witness ==
    /\ hart.last # None
    /\ hart.last.kind = "addi0" /\ hart.last.via = "block"
    /\ hart.regs[0] = 0

(* C10: once the decoder has rejected an instruction the hart holds a      *)
(* pending IllegalInstruction trap whose tval is the pc of the instruction *)
(* (or has delivered it, mepc being that pc) and the emulator still runs.  *)
C10_IllegalTrap ==
    hart.rejected # None =>
        /\ hart.halted = "no"
        /\ \/ hart.trap = Some(Trap(IllegalInstruction, hart.rejected.some))
           \/ hart.csr.mepc = Bits(hart.rejected.some)

(* C3: when the cached and the uncached run of the same program have both *)
(* ended, the integer registers, the pc and the CSRs are the same (memory  *)
(* is never written by the programs).                                      *)
C3_CachedEquivUncached ==
    (hart.halted # "no" /\ hartU.halted # "no") =>
        /\ hart.regs = hartU.regs
        /\ hart.pc = hartU.pc
        /\ hart.csr = hartU.csr

(***************************************************************************)
(* Properties of the top-level loop                                        *)
(***************************************************************************)
\* The hart is in exec_one_by_one called from exec_cached_int.
InFallback == hart.halted = "no" /\ hart.loc = "one" /\ hart.mode = "cached"

FetchFaults == {InstructionPageFault, InstructionAccessFault}

(* C11: when fewer than 4 bytes are left on the page at pc, the cached     *)
(* loop clears cache_enabled, sets stop_exec and runs the uncached loop,   *)
(* which executes one instruction (or none, when the fetch faults) and     *)
(* returns to run; cache_enabled is true again when run's next iteration   *)
(* starts.                                                                 *)
C11_PageEndFallback ==
    /\ [](InFallback => ~hart.cache_enabled /\ hart.stop_exec)
    /\ [](hart.loc = "run" /\ hart.mode = "cached" => hart.cache_enabled)
    /\ [][(/\ hart.halted = "no" /\ hart.loc = "cached"
            /\ RISCV_PAGE_SIZE - PageOffset(hart.pc) < 4) =>
              (hart' = hart \/ InFallback')]_vars
    /\ [][InFallback =>
            \/ hart' = hart
            \/ hart'.halted # "no"
            \/ /\ hart'.loc = "after" /\ hart'.cache_enabled
               /\ IF hart'.trap # None /\ hart'.trap.some.ttype \in FetchFaults
                  THEN hart'.last = hart.last /\ hart'.pc = hart.pc
                  ELSE /\ hart'.last.pc = hart.pc /\ hart'.last.via = "one"
                       /\ hart'.pc = hart.pc + hart'.last.len]_vars

\* The cached pass has stepped the instruction on the last half-word of
\* the page through the uncached loop and the cache is enabled again.
C11_Witness ==
    /\ hart.loc = "after" /\ hart.mode = "cached" /\ hart.cache_enabled
    /\ hart.last # None /\ hart.last.via = "one"
    /\ RISCV_PAGE_SIZE - PageOffset(hart.last.pc) < 4
    /\ hart.pc = hart.last.pc + hart.last.len

(* C12: in user mode run never calls handle_trap; a pending trap whose     *)
(* cause is the environment call is handled by handle_syscall once, the    *)
(* trap slot is empty afterwards and the pc is that of the instruction     *)
(* after the ecall (unless a signal retargets it in the same iteration);   *)
(* a pending trap of any other cause halts the emulator.                   *)
C12_UserModeTraps ==
    /\ [](hart.usermode =>
            /\ hart.csr = ZeroCsr /\ hart.prvmode = "Machine"
            /\ hart.handled # None => hart.handled.by = "handle_syscall")
    /\ [][(/\ hart.usermode /\ hart.halted = "no" /\ hart.loc = "after"
            /\ hart.trap # None /\ hart' # hart) =>
              IF hart.trap.some.ttype = EnvironmentCallFromMMode
              THEN /\ hart'.halted = "no" /\ hart'.loc = "run"
                   /\ hart'.trap = None
                   /\ hart'.handled = [trap |-> hart.trap.some,
                                       by |-> "handle_syscall"]
                   /\ hart'.sysin # None
                   /\ ~sig.avail => hart'.pc = hart.trap_pc + 4
              ELSE /\ hart'.halted = "protection_error"
                   /\ hart'.sysin = hart.sysin
                   /\ hart'.regs = hart.regs]_vars

\* A user-mode hart back at the top of run after handle_syscall handled
\* its ecall.
C12_Witness ==
    /\ hart.usermode /\ hart.halted = "no" /\ hart.loc = "run"
    /\ hart.handled # None /\ hart.handled.by = "handle_syscall"
    /\ hart.sysin # None /\ hart.trap = None
    /\ hart.pc = hart.last.pc + 4 /\ hart.last.kind = "ecall"

(***************************************************************************)
(* handle_syscall on its own: a user-mode hart with a pending ecall, the   *)
(* syscall number and the arguments drawn from SyscallNumbers and          *)
(* SyscallArgs.                                                            *)
(***************************************************************************)
\* a7: two numbers of the table, two without an entry, and one above
\* 65535 whose low 16 bits are a number of the table.
SyscallNumbers == {64, 93, 0, 500, 65536 + 64}

\* regs[10..12]; every other register r holds r.
SyscallArgs == [10 .. 12 -> {1, 2}]

SysInit ==
    /\ TrapIdle
    /\ env = None /\ hartU = None /\ sig = None
    /\ \E n \in SyscallNumbers, a \in SyscallArgs :
          hart = [init_usermode EXCEPT
                    !.regs = [r \in 0 .. 31 |->
                                 IF r = 17 THEN n
                                 ELSE IF r \in DOMAIN a THEN a[r] ELSE r],
                    !.trap = Some(Trap(EnvironmentCallFromMMode, 0)),
                    !.loc = "after"]

SysCall ==
    /\ hart.sysin = None
    /\ \E out \in DispatchOutcomes : hart' = handle_syscall(hart, out)
    /\ UNCHANGED <<base, tcpu, tlast, tfix, tn, hartU, env, sig>>

SysNext == SysCall

SpecSys == SysInit /\ [][SysNext]_vars

(* C13: handle_syscall takes the syscall number from regs[17] and the six  *)
(* arguments from regs[10] .. regs[15] in that order, writes the primary   *)
(* result into regs[10], writes regs[11] exactly when the dispatch         *)
(* returned a secondary value, and changes no other integer register.      *)
C13_SyscallFrame ==
    [][LET r == hart.regs
       IN  /\ \A i \in 1 .. 6 : hart'.sysin.args[i] = r[9 + i]
           /\ hart'.sysin.args[7] = 0
           /\ hart'.sysin.syscall =
                 riscv_translate_syscall(r[17] % 65536).some
           /\ \E out \in DispatchOutcomes :
                 /\ hart'.regs[10] = out.ret1
                 /\ hart'.regs[11] =
                       IF out.ret2 # None THEN out.ret2.some ELSE r[11]
           /\ \A i \in (0 .. 31) \ {10, 11} : hart'.regs[i] = r[i]]_vars

\* handle_syscall has run on registers whose a0..a2 differ from the
\* results, with a secondary value returned.
C13_Witness ==
    /\ hart.sysin # None
    /\ hart.sysin.args = <<1, 2, 1, 13, 14, 15, 0>>
    /\ hart.regs[17] = 93 /\ hart.sysin.syscall = 93
    /\ hart.regs[10] = 4 /\ hart.regs[11] = 9

(* C14: for every a7 that has no entry in the syscall table, values above  *)
(* 65535 included, handle_syscall hands the runtime the unsupported        *)
(* variant and dispatches no valid syscall.                                *)
C14_UnsupportedSurfaced ==
    (hart.sysin # None /\ hart.regs[17] \notin KnownSyscalls) =>
        hart.sysin.syscall = Unsupported

(* C15: when an instruction read faults while build_exec builds a block,   *)
(* the fault becomes the pending trap run drains, no block for that start  *)
(* address is in the block index, and the emulator has not halted.         *)
C15_BuildFaultPropagates ==
    hart.build_fault # None =>
        /\ hart.halted = "no"
        /\ hart.loc = "after" => hart.trap = hart.build_fault
        /\ \A b \in StoredBlocks : b.begin # hart.current_block.begin

(* C16: a trap raised through set_trap leaves stop_exec true and trap_pc   *)
(* at the pc of the raising instruction; a pending trap exists only        *)
(* between the execution pass and the trap handling of the same iteration  *)
(* of run, so no guest instruction executes before it is handled and the   *)
(* slot is empty when an iteration starts; run handles it once, through    *)
(* handle_trap or handle_syscall, unless the emulator halts.               *)
C16_TrapDrainedOnce ==
    /\ [](hart.trap # None => hart.loc = "after")
    /\ []((hart.trap # None /\ hart.trap.some.ttype \notin FetchFaults) =>
            hart.stop_exec /\ hart.trap_pc = hart.last.pc)
    /\ [][(hart.loc = "after" /\ hart.trap # None /\ hart' # hart) =>
            \/ hart'.halted # "no"
            \/ /\ hart'.trap = None /\ hart'.loc = "run"
               /\ hart'.handled # None
               /\ hart'.handled.trap = hart.trap.some
               /\ hart'.last = hart.last]_vars

\* A load fault raised by a handler has been delivered by handle_trap and
\* run is at the top of its next iteration with the slot empty.
C16_Witness ==
    /\ hart.loc = "run" /\ hart.trap = None /\ hart.halted = "no"
    /\ hart.handled # None /\ hart.handled.by = "handle_trap"
    /\ hart.handled.trap.ttype = LoadPageFault
    /\ hart.last.kind = "load"
    /\ hart.csr.mepc = Bits(hart.last.pc)

(* C17: after run has handled a trap, through handle_trap or through       *)
(* handle_syscall, the hart holds no LR/SC reservation.                    *)
C17_TrapClearsReservation ==
    (hart.handled # None /\ hart.loc = "run") => ~hart.is_reservation

(* C18: the cached executor is back in run, where the trap slot and       *)
(* SIGNAL_AVAIL are checked, between any two blocks it executes: no pass   *)
(* of exec_cached_int enters a second block.                               *)
C18_YieldAtBlockBoundary ==
    hart.loc = "block" => hart.pass_blocks <= 1

\* The iteration of run about to finish reaches the poll of SIGNAL_AVAIL.
ReachesPoll ==
    /\ hart.halted = "no" /\ hart.loc = "after"
    /\ hart.trap # None => hart.usermode /\ is_syscall_trap(hart.trap.some)

(* C19: when run polls SIGNAL_AVAIL and finds it true, setup_rt_frame is   *)
(* called once with the signal number held in SINFO and the flag is false  *)
(* afterwards; when the flag is false setup_rt_frame is not called; hence  *)
(* every signal raised is framed once.                                     *)
C19_SignalPoll ==
    /\ [][(ReachesPoll /\ hart' # hart) =>
            IF sig.avail
            THEN /\ sig'.framed = sig.framed + 1
                 /\ sig'.signum = sig.use_idx
                 /\ ~sig'.avail
                 /\ hart'.regs[10] = sig.use_idx.some
            ELSE sig' = sig]_vars
    /\ [][sig'.framed # sig.framed => ReachesPoll /\ sig.avail]_vars
    /\ [](sig.framed + (IF sig.avail THEN 1 ELSE 0) = sig.raised)

\* Signal 12 has been framed by the poll and the flag is clear.
C19_Witness ==
    /\ hart.loc = "run" /\ hart.halted = "no"
    /\ sig.framed = 1 /\ sig.raised = 1 /\ ~sig.avail
    /\ sig.signum = Some(12) /\ hart.regs[10] = 12

(* C20: when the handler of an instruction of a cached block sets         *)
(* stop_exec, that instruction still completes (pc advanced by its inc_by, *)
(* register 0 zeroed), no later instruction of the block executes and      *)
(* control is back in run.                                                 *)
C20_StopExecCancelsBlock ==
    [][(hart.halted = "no" /\ hart.loc = "block" /\ hart' # hart) =>
         LET z   == hart.blk.instrs[hart.idx]
             ran == exec_handler(env,
                        [hart EXCEPT !.is_compressed = (z.inc_by = 2)], z.kind)
         IN  ran.stop_exec =>
                /\ hart'.loc = "after" /\ hart'.halted = "no"
                /\ hart'.pc = hart.pc + z.inc_by
                /\ hart'.regs[0] = 0
                /\ hart'.idx = hart.idx
                /\ hart'.last = [pc |-> hart.pc, kind |-> z.kind,
                                 len |-> z.inc_by, via |-> "block"]]_vars

\* A load in the middle of a block has trapped: run has control, the pc is
\* past the load and the c.li after it has not executed.
C20_Witness ==
    /\ hart.loc = "after" /\ hart.stop_exec
    /\ hart.last # None /\ hart.last.via = "block" /\ hart.last.kind = "load"
    /\ hart.idx < Len(hart.blk.instrs)
    /\ hart.blk.instrs[hart.idx + 1].kind = "li5"
    /\ hart.pc = hart.last.pc + 4
    /\ hart.regs[5] = 0 /\ hart.regs[0] = 0

(* C21: when a pass returns to run with no trap and no signal pending,    *)
(* the pc of the next fetch is the value of want_pc, which is then unset,  *)
(* or, when want_pc is unset, the address after the last executed          *)
(* instruction.                                                            *)
C21_WantPcCommitted ==
    /\ []((hart.loc = "after" /\ hart.trap = None /\ hart.halted = "no") =>
             hart.pc = hart.last.pc + hart.last.len)
    /\ [][(/\ hart.loc = "after" /\ hart.trap = None /\ ~sig.avail
            /\ hart' # hart /\ hart'.halted = "no") =>
              /\ hart'.loc = "run" /\ hart'.want_pc = None
              /\ hart'.pc = IF hart.want_pc # None THEN hart.want_pc.some
                            ELSE hart.last.pc + hart.last.len]_vars
    /\ [][(hart.loc = "run" /\ hart' # hart) => hart'.pc = hart.pc]_vars

\* The jump to the start of the program has been committed by run.
C21_Witness ==
    /\ hart.loc = "run" /\ hart.halted = "no" /\ ~hart.signalled
    /\ hart.last # None /\ hart.last.kind = "jal"
    /\ hart.handled = None /\ hart.want_pc = None
    /\ hart.pc = env.start /\ hart.pc # hart.last.pc + hart.last.len

(* C22: a block is added to the index only when the cached loop is at an  *)
(* address where no stored block begins, one block at a time; a stored     *)
(* block is never removed or altered, and every lookup of its begin        *)
(* address returns it.                                                     *)
C22_BlocksLazyNeverEvicted ==
    /\ [][\A p \in DOMAIN hart.instr :
             /\ p \in DOMAIN hart'.instr
             /\ Len(hart'.instr[p]) >= Len(hart.instr[p])
             /\ SubSeq(hart'.instr[p], 1, Len(hart.instr[p])) = hart.instr[p]]_vars
    /\ [][hart'.instr # hart.instr =>
             /\ hart.loc = "cached"
             /\ check_block(hart, hart.pc).kind = "none"
             /\ \E b \in StoredBlocks' :
                   /\ b.begin = hart.pc
                   /\ StoredBlocks' = StoredBlocks \cup {b}
                   /\ b \notin StoredBlocks]_vars
    /\ [](\A b \in StoredBlocks :
             check_block(hart, b.begin) = [kind |-> "some", blk |-> b])

\* The only stored block is being executed again after the jump at its
\* end returned to its begin address.
C22_Witness ==
    /\ hart.loc = "block" /\ hart.idx = 1
    /\ hart.last # None /\ hart.last.kind = "jal" /\ hart.last.via = "block"
    /\ hart.blk.begin = env.start
    /\ StoredBlocks = {hart.blk}
    /\ Len(hart.blk.instrs) = 2

\* The bytes of the first n instructions of a block.
RECURSIVE SumIncBy(_, _)
SumIncBy(instrs, n) ==
    IF n = 0 THEN 0 ELSE SumIncBy(instrs, n - 1) + instrs[n].inc_by

\* The address of instruction i of block b, and the bytes left on the page
\* after it.
InstrAddr(b, i) == b.begin + SumIncBy(b.instrs, i - 1)

BytesLeftAfter(b, i) ==
    RISCV_PAGE_SIZE - PageOffset(b.begin) - SumIncBy(b.instrs, i)

(* C23: a stored block begins where at least 4 bytes are left on the page  *)
(* and is the non-empty run of consecutive instructions from begin, each   *)
(* with the length of its encoding, that ends after the first instruction  *)
(* that sets stop_translating, or when fewer than 2 bytes are left, or     *)
(* before a 4-byte instruction that no longer fits (which is not           *)
(* consumed); end is the address of the last instruction, and a lookup of  *)
(* begin returns the block.                                                *)
C23_BlockContents ==
    \A b \in StoredBlocks :
        LET n == Len(b.instrs)
        IN  /\ RISCV_PAGE_SIZE - PageOffset(b.begin) >= 4
            /\ n >= 1
            /\ \A i \in 1 .. n :
                  /\ b.instrs[i].inc_by = TokenAt(env, InstrAddr(b, i)).len
                  /\ b.instrs[i].kind = TokenAt(env, InstrAddr(b, i)).kind
                  /\ b.instrs[i].inc_by \in {2, 4}
                  /\ BytesLeftAfter(b, i) >= 0
            /\ \A i \in 1 .. (n - 1) :
                  ~decode_stops(TokenAt(env, InstrAddr(b, i)))
            /\ \/ decode_stops(TokenAt(env, InstrAddr(b, n)))
               \/ BytesLeftAfter(b, n) < 2
               \/ /\ TokenAt(env, InstrAddr(b, n + 1)).len = 4
                  /\ BytesLeftAfter(b, n) < 4
            /\ b.end = InstrAddr(b, n)
            /\ check_block(hart, b.begin) = [kind |-> "some", blk |-> b]

\* A stored block of a 2-byte and a 4-byte instruction that stops two
\* bytes before the page end, in front of a 4-byte instruction.
C23_Witness ==
    \E b \in StoredBlocks :
        /\ Len(b.instrs) = 2
        /\ b.instrs[1].inc_by = 2 /\ b.instrs[2].inc_by = 4
        /\ ~decode_stops(TokenAt(env, b.end))
        /\ BytesLeftAfter(b, 2) = 2
        /\ TokenAt(env, InstrAddr(b, 3)).len = 4

(* C24: when an iteration of run has delivered a signal, the pc of the    *)
(* next fetch is the handler address setup_rt_frame wrote, also when the   *)
(* pass left want_pc set.                                                  *)
C24_SignalHandlerRuns ==
    (hart.loc = "run" /\ hart.halted = "no" /\ hart.signalled) =>
        hart.pc = SigHandlerPc

(* C25: in system mode, after run has delivered a trap, the pc of the     *)
(* next fetch is the vector handle_trap computed; a want_pc the trapping   *)
(* pass left is discarded, and trap, trap_pc, wfi and stop_exec are reset. *)
C25_TrapVectorWins ==
    /\ [][(/\ hart.loc = "after" /\ hart.trap # None /\ ~hart.usermode
            /\ hart' # hart /\ hart'.halted = "no") =>
              /\ hart'.loc = "run"
              /\ hart'.pc = Val(hart.csr.mtvec \ {0})
              /\ hart'.want_pc = None /\ hart'.trap = None
              /\ hart'.trap_pc = 0 /\ ~hart'.wfi /\ ~hart'.stop_exec]_vars
    /\ []((/\ hart.loc = "run" /\ hart.halted = "no"
           /\ hart.handled # None /\ hart.handled.by = "handle_trap") =>
             /\ hart.pc = Val(hart.csr.mtvec \ {0})
             /\ hart.want_pc = None /\ hart.trap = None
             /\ hart.trap_pc = 0 /\ ~hart.wfi /\ ~hart.stop_exec)

\* A jump that requested its target and then trapped: run is at the top of
\* its next iteration with pc at the vector and no want_pc.
C25_Witness ==
    /\ hart.loc = "run" /\ hart.halted = "no"
    /\ hart.handled # None /\ hart.handled.by = "handle_trap"
    /\ hart.last.kind = "jtrap"
    /\ hart.pc = 0 /\ hart.pc # env.start /\ hart.want_pc = None

(* C26: the pc run passes to handle_trap, which ends up in mepc, is the   *)
(* pc of the instruction at which the trap was raised: the instruction a   *)
(* handler trapped in, or the pc whose fetch or translation faulted.       *)
C26_TrapPcPassed ==
    [][(/\ hart.loc = "after" /\ hart.trap # None /\ ~hart.usermode
         /\ hart' # hart /\ hart'.halted = "no") =>
           hart'.csr.mepc =
              Bits(IF hart.trap.some.ttype \in FetchFaults
                   THEN hart.pc ELSE hart.last.pc)]_vars

(* C27: no two stored blocks have the same begin address and every block  *)
(* is in the list of the page of its begin address, so what check_block    *)
(* returns for an address does not depend on the order of the list; blocks *)
(* of one page with different begin addresses may overlap.                 *)
C27_UniqueBegin ==
    \A p \in DOMAIN hart.instr :
        LET z == hart.instr[p]
        IN  /\ \A i, j \in 1 .. Len(z) : z[i].begin = z[j].begin => i = j
            /\ \A i \in 1 .. Len(z) :
                  /\ PageNumber(z[i].begin) = p
                  /\ \A q \in DOMAIN hart.instr \ {p} :
                        \A j \in 1 .. Len(hart.instr[q]) :
                            hart.instr[q][j].begin # z[i].begin

\* Two blocks of one page, the second beginning at the last instruction of
\* the first.
C27_Witness ==
    \E p \in DOMAIN hart.instr :
        /\ Len(hart.instr[p]) = 2
        /\ hart.instr[p][1].begin < hart.instr[p][2].begin
        /\ hart.instr[p][2].begin = hart.instr[p][1].end
        /\ hart.instr[p][2].end = hart.instr[p][1].end

(* C28: handle_trap changes only the CSRs of the mode that takes the      *)
(* trap: a supervisor delivery leaves mstatus, mepc, mcause and mtval, a   *)
(* machine delivery leaves sstatus, sepc, scause and stval; neither        *)
(* changes medeleg, mideleg, mtvec, stvec or an integer register, nor      *)
(* lowers the privilege below the one the trap was raised at.              *)
C28_TrapFrame ==
    Delivered =>
        LET pre  == tlast.pre.csr
            post == tcpu.csr
        IN  /\ TookSupervisor =>
                  \A c \in {"mstatus", "mepc", "mcause", "mtval"} :
                      post[c] = pre[c]
            /\ TookMachine =>
                  \A c \in {"sstatus", "sepc", "scause", "stval"} :
                      post[c] = pre[c]
            /\ \A c \in {"medeleg", "mideleg", "mtvec", "stvec"} :
                  post[c] = pre[c]
            /\ tcpu.regs = tlast.pre.regs
            /\ get_privilege_encoding(tcpu.prvmode) >=
                  get_privilege_encoding(tlast.pre.prvmode)

\* A supervisor delivery from User with a non-zero mstatus and delegation
\* registers, which wrote sepc and sstatus.
C28_Witness ==
    /\ TookSupervisor /\ tlast.pre.prvmode = "User"
    /\ tlast.pre.csr.mstatus # {} /\ tlast.pre.csr.medeleg # {}
    /\ tcpu.csr.sepc = tlast.pc /\ tlast.pc # {}
    /\ tcpu.csr.sstatus # tlast.pre.csr.sstatus
    /\ tcpu.csr.mstatus = tlast.pre.csr.mstatus

(***************************************************************************)
(* Memory mappings (src/system/base/src/sys/windows/mmap.rs)               *)
(*                                                                         *)
(* usize is UsizeBits wide: an addition whose sum exceeds USIZE_MAX        *)
(* overflows.                                                              *)
(***************************************************************************)
UsizeBits == 3

USIZE_MAX == (2 ^ UsizeBits) - 1

Usize == 0 .. USIZE_MAX

Unit == <<>>

\* Err(e) of the base library's Result.
Fail(e) == [ok |-> FALSE, err |-> e]

InvalidAddress == [kind |-> "InvalidAddress"]

\* VolatileMemoryError::Overflow { base, offset }
Overflow(b, o) == [kind |-> "Overflow", base |-> b, offset |-> o]

\* VolatileMemoryError::OutOfBounds { addr }
OutOfBounds(a) == [kind |-> "OutOfBounds", addr |-> a]

\* usize::checked_add
checked_add(a, b) == IF a + b > USIZE_MAX THEN None ELSE Some(a + b)

validate_includes_range_strict(mmap_size, offset, range_size) ==
    LET end_offset == checked_add(offset, range_size)
    IN  IF end_offset = None THEN Fail(InvalidAddress)
        ELSE IF end_offset.some < mmap_size THEN Ok(Unit)
        ELSE Fail(InvalidAddress)

validate_includes_range(mmap_size, offset, range_size) ==
    LET end_offset == checked_add(offset, range_size)
    IN  IF end_offset = None THEN Fail(InvalidAddress)
        ELSE IF end_offset.some <= mmap_size THEN Ok(Unit)
        ELSE Fail(InvalidAddress)

\* MemoryMapping::range_end, self.size() = size
range_end(size, offset, count) ==
    LET mem_end == checked_add(offset, count)
    IN  IF mem_end = None THEN Fail(InvalidAddress)
        ELSE IF mem_end.some > size THEN Fail(InvalidAddress)
        ELSE Ok(mem_end.some)

\* VolatileMemory::get_slice of crate::MemoryMapping: the slice starts
\* offset bytes into the mapping and is count bytes long.
get_slice(size, offset, count) ==
    LET mem_end == checked_add(offset, count)
    IN  IF mem_end = None THEN Fail(Overflow(offset, count))
        ELSE IF mem_end.some > size THEN Fail(OutOfBounds(mem_end.some))
        ELSE Ok([addr |-> offset, size |-> count])

MapInit ==
    /\ tcpu = None /\ tlast = None /\ tfix = None /\ tn = 0
    /\ hart = None /\ hartU = None /\ env = None /\ sig = None
    /\ zfile = None
    /\ mapping \in [size : Usize, call : {None}]

MapCall(op, offset, count, res) ==
    /\ mapping' = [mapping EXCEPT
                     !.call = [op |-> op, offset |-> offset, count |-> count,
                               res |-> res]]
    /\ UNCHANGED <<tcpu, tlast, tfix, tn, hart, hartU, env, sig, zfile>>

ValidateRange ==
    \E offset \in Usize, count \in Usize :
        MapCall("validate_includes_range", offset, count,
                validate_includes_range(mapping.size, offset, count))

RangeEnd ==
    \E offset \in Usize, count \in Usize :
        MapCall("range_end", offset, count,
                range_end(mapping.size, offset, count))

GetSlice ==
    \E offset \in Usize, count \in Usize :
        MapCall("get_slice", offset, count,
                get_slice(mapping.size, offset, count))

MapNext == ValidateRange \/ RangeEnd \/ GetSlice

SpecMap == MapInit /\ [][MapNext]_vars

(* C29: a range (offset, count) of a mapping of size bytes is accepted iff *)
(* offset + count does not overflow and is at most size.                   *)
(* validate_includes_range and range_end answer InvalidAddress otherwise,  *)
(* range_end answers offset + count on success, and get_slice answers      *)
(* Overflow when the sum overflows and OutOfBounds naming offset + count   *)
(* when the sum exceeds the size.                                          *)
C29_RangeAccepted ==
    mapping.call # None =>
        LET c        == mapping.call
            sum      == c.offset + c.count
            overflow == sum > USIZE_MAX
            fits     == ~overflow /\ sum <= mapping.size
        IN  /\ c.res.ok <=> fits
            /\ c.op = "validate_includes_range" =>
                  c.res = IF fits THEN Ok(Unit) ELSE Fail(InvalidAddress)
            /\ c.op = "range_end" =>
                  c.res = IF fits THEN Ok(sum) ELSE Fail(InvalidAddress)
            /\ c.op = "get_slice" =>
                  /\ overflow => c.res = Fail(Overflow(c.offset, c.count))
                  /\ (~overflow /\ ~fits) => c.res = Fail(OutOfBounds(sum))

\* The empty range at the end of a non-empty mapping is accepted.
C29_Witness ==
    /\ mapping.call # None
    /\ mapping.call.op = "validate_includes_range"
    /\ mapping.size > 0
    /\ mapping.call.offset = mapping.size
    /\ mapping.call.count = 0
    /\ mapping.call.res = Ok(Unit)

(***************************************************************************)
(* Zeroing a file range (src/system/base/src/sys/unix/write_zeroes.rs)     *)
(*                                                                         *)
(* zfile is one call of file_write_zeroes_at: its arguments, its position  *)
(* (loc), the locals buf_size and nwritten, the writes that stored bytes   *)
(* (writes), the last write_at attempted (last) and the value returned     *)
(* (res).  dev is the kind of file: a "progress" file stores at least one  *)
(* byte in every successful write_at, a "stuck" file may answer Ok(0) and  *)
(* from then on always does.                                               *)
(***************************************************************************)
MaxBufSize == 65536

\* Short writes the file makes during one call.
MaxPartial == 2

Min(a, b) == IF a < b THEN a ELSE b

ZeroLengths == {0, 1, 3, MaxBufSize, MaxBufSize + 2, (2 * MaxBufSize) + 1}

ZeroOffsets == {0, 7}

\* let buf_size = min(length, 0x10000);
buf_size_of(length) == Min(length, MaxBufSize)

\* let write_size = min(remaining, buf_size);
write_size_of(z) == Min(z.length - z.nwritten, z.buf_size)

write_offset_fixed(z) == z.offset

\* offset + nwritten as u64
write_offset(z) == z.offset + z.nwritten

\* while nwritten < length { ... } Ok(length)
loop_test(z) ==
    IF z.nwritten < z.length THEN [z EXCEPT !.loc = "loop"]
    ELSE [z EXCEPT !.loc = "done", !.res = Ok(z.length)]

\* The function up to the loop: fallocate answered ok or not.
zeroes_enter(z, fallocate_ok) ==
    IF fallocate_ok
    THEN [z EXCEPT !.loc = "done", !.by = "fallocate", !.res = Ok(z.length)]
    ELSE loop_test([z EXCEPT !.by = "write",
                             !.buf_size = buf_size_of(z.length),
                             !.nwritten = 0])

\* One iteration of the loop: write_at answered out.
zeroes_write(z, out) ==
    LET att == [at |-> write_offset(z), len |-> write_size_of(z), out |-> out]
    IN  IF ~out.ok
        THEN [z EXCEPT !.last = att, !.loc = "done", !.res = out]
        ELSE loop_test(
                 [z EXCEPT !.last = att,
                           !.nwritten = z.nwritten + out.v,
                           !.writes = IF out.v > 0
                                      THEN Append(z.writes,
                                                  [at |-> att.at,
                                                   len |-> att.len,
                                                   ret |-> out.v])
                                      ELSE z.writes,
                           !.partial = IF out.v < att.len
                                       THEN Min(z.partial + 1, MaxPartial)
                                       ELSE z.partial])

ShortWrites(len) == {n \in {1, len \div 2, len - 1} : 1 <= n /\ n < len}

Stalled(z) == z.last # None /\ z.last.out.ok /\ z.last.out.v = 0

\* What FileExt::write_at may answer for a buffer of len bytes.
WriteOutcomes(z, len) ==
    IF z.dev = "progress"
    THEN {Ok(len), Fail("EIO")} \cup
         (IF z.partial < MaxPartial THEN {Ok(n) : n \in ShortWrites(len)}
          ELSE {})
    ELSE IF Stalled(z) THEN {Ok(0)}
    ELSE {Ok(len), Ok(0)}

ZeroInit ==
    /\ tcpu = None /\ tlast = None /\ tfix = None /\ tn = 0
    /\ hart = None /\ hartU = None /\ env = None /\ sig = None
    /\ mapping = None
    /\ zfile \in [offset : ZeroOffsets, length : ZeroLengths,
                  dev : {"progress", "stuck"}, loc : {"call"},
                  buf_size : {0}, nwritten : {0}, writes : {<<>>},
                  last : {None}, partial : {0}, by : {"none"},
                  res : {None}]

ZeroCall ==
    /\ zfile.loc = "call"
    /\ \E fallocate_ok \in BOOLEAN : zfile' = zeroes_enter(zfile, fallocate_ok)
    /\ UNCHANGED <<tcpu, tlast, tfix, tn, hart, hartU, env, sig, mapping>>

ZeroWrite ==
    /\ zfile.loc = "loop"
    /\ \E out \in WriteOutcomes(zfile, write_size_of(zfile)) :
          zfile' = zeroes_write(zfile, out)
    /\ UNCHANGED <<tcpu, tlast, tfix, tn, hart, hartU, env, sig, mapping>>

ZeroNext == ZeroCall \/ ZeroWrite

\* The function is sequential code: it takes its next step when it has one.
SpecZero == ZeroInit /\ [][ZeroNext]_vars /\ WF_vars(ZeroNext)

\* The stored writes follow one another from at: no gap, no overlap.
RECURSIVE Consecutive(_, _)
Consecutive(ws, at) ==
    \/ ws = <<>>
    \/ /\ Head(ws).at = at
       /\ Head(ws).ret >= 1
       /\ Head(ws).ret <= Head(ws).len
       /\ Head(ws).len <= MaxBufSize
       /\ Consecutive(Tail(ws), at + Head(ws).ret)

RECURSIVE BytesWritten(_)
BytesWritten(ws) ==
    IF ws = <<>> THEN 0 ELSE Head(ws).ret + BytesWritten(Tail(ws))

ZeroReturned == zfile.loc = "done"

ZeroSafe ==
    /\ Consecutive(zfile.writes, zfile.offset)
    /\ zfile.nwritten = BytesWritten(zfile.writes)
    /\ BytesWritten(zfile.writes) <= zfile.length
    /\ zfile.last # None =>
          /\ zfile.last.len <= MaxBufSize
          /\ zfile.last.len >= 1
          /\ zfile.last.at = zfile.offset + BytesWritten(zfile.writes)
                               - (IF zfile.last.out.ok THEN zfile.last.out.v
                                  ELSE 0)
    /\ zfile.length = 0 => (zfile.last = None /\ zfile.writes = <<>>)
    /\ ZeroReturned <=> zfile.res # None
    /\ (ZeroReturned /\ zfile.res.ok) =>
          /\ zfile.res = Ok(zfile.length)
          /\ \/ zfile.by = "fallocate" /\ zfile.last = None
             \/ /\ zfile.by = "write"
                /\ BytesWritten(zfile.writes) = zfile.length
                /\ zfile.last # None => zfile.last.out.ok
    /\ (ZeroReturned /\ ~zfile.res.ok) =>
          /\ zfile.last # None
          /\ zfile.res = zfile.last.out
    /\ (zfile.last # None /\ ~zfile.last.out.ok) =>
          (ZeroReturned /\ zfile.res = zfile.last.out)

(* C30: file_write_zeroes_at returns Ok(length) only after the whole range *)
(* [offset, offset + length) was zeroed, by the zero-range fallocate or by *)
(* writes at consecutive offsets, without gap or overlap, of at most       *)
(* 0x10000 bytes each, a short write being resumed at offset + the bytes   *)
(* written so far; a write error is returned as Err; length 0 performs no  *)
(* write; and the call returns provided every write makes progress.        *)
C30_WriteZeroes ==
    /\ []ZeroSafe
    /\ (zfile.dev = "progress") ~> ZeroReturned

\* Three chunks, one of them cut by a short write, and the call returned
\* Ok(length).
C30_Witness ==
    /\ ZeroReturned /\ zfile.res = Ok(zfile.length)
    /\ zfile.by = "write"
    /\ zfile.length > 2 * MaxBufSize
    /\ \E i \in DOMAIN zfile.writes :
          /\ zfile.writes[i].ret < zfile.writes[i].len
          /\ i < Len(zfile.writes)
          /\ zfile.writes[i + 1].at = zfile.writes[i].at + zfile.writes[i].ret

\* Without the proviso the call need not return.
ZeroAlwaysReturns == <>ZeroReturned

====
